---- MODULE Spec2Model ----
(***************************************************************************)
(* A model of the AVM Action driver: main() (main.py), the configuration   *)
(* loader and validator (config.py), TerraformRunner                       *)
(* (terraform_runner.py) and AzureAuthenticator (azure_auth.py), which the *)
(* driver does not call and which is exercised on its own under SpecAuth.  *)
(*                                                                         *)
(* One behaviour of Spec is one call from one of three entry points:       *)
(*   "main"         main(), fed by INPUT_* environment variables;          *)
(*   "run"          TerraformRunner(config, terraform_path, dry_run).run() *)
(*                  as the unit tests call it, Simulated or Real;          *)
(*   "run_command"  TerraformRunner.run_command(cmd) on a given vector.    *)
(*                                                                         *)
(* Strings are TLA+ strings; a text that is searched (a captured output    *)
(* stream) is a sequence of string chunks, so that "contains" and "in      *)
(* that order" are computed and not assumed.  Python's None is the value   *)
(* None and Python truthiness of a string is Truthy.                       *)
(***************************************************************************)
EXTENDS Integers, Sequences, FiniteSets, TLC

VARIABLES
    entry,            \* which entry point this behaviour exercises
    environ,          \* os.environ: the INPUT_* values, already split where the loader splits
    which,            \* what shutil.which("terraform") answers
    arg_path,         \* the terraform_path argument given to TerraformRunner(...)
    arg_dry_run,      \* the dry_run argument given to TerraformRunner(...)
    pc,               \* the position of the call
    config,           \* the ActionConfig (NoConfig until loaded)
    runner,           \* the TerraformRunner (NoRunner until constructed)
    phase,            \* which call of run_command is active: "workspace", "main", "direct"
    cmd,              \* the argument vector run_command was given
    original_dir,     \* run_command's local original_dir
    pending,          \* the exception travelling through run_command's finally
    returning,        \* the CommandResult run_command's try block is returning
    workspace_result, \* run()'s local workspace_result
    result,           \* what run() / run_command() returned
    raised,           \* the exception that left the entry point, or NoException
    exit_code,        \* what main() returned (NoCode until it returns)
    cwd,              \* the process's current working directory
    built,            \* ghost: every argument vector built, in order
    executed,         \* ghost: every argument vector handed to run_command, in order
    finished,         \* ghost: number of run_command calls that returned or raised
    spawned,          \* ghost: every child process that ran, in order
    chdirs,           \* ghost: number of os.chdir calls made
    outputs,          \* github_output(name, value) calls, in order
    annotations,      \* github_error(message) calls, in order
    ambient,          \* os.environ: the variables the credential code reads
    authenticator,    \* the AzureAuthenticator (NoAuthenticator until constructed)
    method,           \* what detect_auth_method() answered (None until asked)
    credentials,      \* the AzureCredentials resolved (NoCredentials until resolved)
    auth_error,       \* the exception that left an authenticate call, or NoError
    env_vars,         \* what set_terraform_env_vars returned (NoEnvVars until called)
    auth_calls,       \* ghost: number of authenticate() calls made
    arg,              \* the argument given to a builder that is called directly
    build_error       \* the message of the ValueError build_command raised, in chunks

vars == <<entry, environ, which, arg_path, arg_dry_run, pc, config, runner, phase,
          cmd, original_dir, pending, returning, workspace_result, result, raised, exit_code,
          cwd, built, executed, finished, spawned, chdirs, outputs, annotations,
          ambient, authenticator, method, credentials, auth_error, env_vars, auth_calls,
          arg, build_error>>

--------------------------------------------------------------------------
(* Bounds of the model. *)

\* exit codes a child process may return are 0..MaxExitCode
MaxExitCode == 2
\* tfvars lists have at most MaxFiles entries
MaxFiles == 2
\* var_overrides inputs have at most MaxOverrides key/value entries
MaxOverrides == 2

--------------------------------------------------------------------------
(* Python values. *)

None == "<None>"
NoConfig == [none |-> "config"]
NoRunner == [none |-> "runner"]
NoResult == [none |-> "result"]
NoException == "<no exception>"

Truthy(s) == s # None /\ s # ""

\* a or b, on strings
Or(a, b) == IF Truthy(a) THEN a ELSE b

\* all sequences over S of length at most n
SeqsUpTo(S, n) == UNION {[1..k -> S] : k \in 0..n}

--------------------------------------------------------------------------
(* config.py *)

\* class TerraformCommand(Enum): the five values
TerraformCommand == {"init", "validate", "plan", "apply", "destroy"}

\* str.lower().strip() on the command strings the model feeds in
LowerStrip(s) ==
    CASE s = " Plan "  -> "plan"
      [] s = "DESTROY" -> "destroy"
      [] s = "Apply"   -> "apply"
      [] OTHER         -> s

\* str.strip() on the file names the model feeds in
Strip(s) ==
    CASE s = " common.tfvars" -> "common.tfvars"
      [] s = " "              -> ""
      [] OTHER                -> s

\* _parse_command: the enum value, or (raise ValueError) None
parse_command(value) ==
    LET v == LowerStrip(value)
    IN  IF v \in TerraformCommand THEN v ELSE None

\* _parse_command: the message of the ValueError it raises
parse_command_error(value) ==
    "Invalid command '" \o LowerStrip(value)
    \o "'. Valid commands: ['init', 'validate', 'plan', 'apply', 'destroy']"

\* _parse_tfvars_files on the fields of value.split(","): strip each, drop the empty ones
RECURSIVE parse_tfvars_files(_)
parse_tfvars_files(fields) ==
    IF fields = << >> THEN << >>
    ELSE (IF Strip(Head(fields)) # "" THEN <<Strip(Head(fields))>> ELSE << >>)
         \o parse_tfvars_files(Tail(fields))

\* dict[key] = val on a dict kept as its items in insertion order: an existing key
\* keeps its place and takes the new value, a new key goes last
DictSet(items, key, val) ==
    IF \E i \in 1..Len(items) : items[i][1] = key
    THEN [i \in 1..Len(items) |-> IF items[i][1] = key THEN <<key, val>> ELSE items[i]]
    ELSE Append(items, <<key, val>>)

\* _parse_var_overrides on the key/value pairs of the input, in input order
RECURSIVE DictFrom(_, _)
DictFrom(items, pairs) ==
    IF pairs = << >> THEN items
    ELSE DictFrom(DictSet(items, Head(pairs)[1], Head(pairs)[2]), Tail(pairs))

parse_var_overrides(pairs) == DictFrom(<< >>, pairs)

\* os.environ.get("INPUT_" + name, default)
get_input(env, name, default) == IF env[name] = None THEN default ELSE env[name]

\* load_config_from_env: the ActionConfig; command is None when _parse_command raised
load_config_from_env(env) ==
    [ tf_directory        |-> get_input(env, "tf_directory", "."),
      tfvars_files        |-> parse_tfvars_files(env.tfvars_files),
      backend_config_file |-> get_input(env, "backend_config_file", ""),
      command             |-> parse_command(get_input(env, "command", "plan")),
      workspace           |-> get_input(env, "workspace", "default"),
      var_overrides       |-> parse_var_overrides(env.var_overrides) ]

\* the characters of the workspace names the model feeds in
Chars(s) ==
    CASE s = "default" -> <<"d", "e", "f", "a", "u", "l", "t">>
      [] s = "staging" -> <<"s", "t", "a", "g", "i", "n", "g">>
      [] s = "dev-1_a" -> <<"d", "e", "v", "-", "1", "_", "a">>
      [] s = "bad ws!" -> <<"b", "a", "d", " ", "w", "s", "!">>
      [] s = "-_"      -> <<"-", "_">>
      [] OTHER         -> << >>

AlnumChars == {"a", "b", "d", "e", "f", "g", "i", "l", "n", "s", "t", "u", "v", "w", "1"}

\* s.replace(ch, "") on a character sequence
RECURSIVE Remove(_, _)
Remove(chars, ch) ==
    IF chars = << >> THEN << >>
    ELSE (IF Head(chars) = ch THEN << >> ELSE <<Head(chars)>>) \o Remove(Tail(chars), ch)

\* str.isalnum(): non-empty and every character alphanumeric
isalnum(chars) == chars # << >> /\ \A i \in 1..Len(chars) : chars[i] \in AlnumChars

\* validate without the "self.workspace and" guard of its workspace check
validate_NoEmptyGuard(c) ==
    (IF ~Truthy(c.tf_directory) THEN <<"tf_directory cannot be empty">> ELSE << >>)
    \o (IF c.command \notin TerraformCommand
        THEN <<"Invalid command: " \o c.command>> ELSE << >>)
    \o (IF ~isalnum(Remove(Remove(Chars(c.workspace), "-"), "_"))
        THEN <<"Invalid workspace name: " \o c.workspace>> ELSE << >>)

\* validate with the workspace check left out
validate_NoWorkspaceCheck(c) ==
    (IF ~Truthy(c.tf_directory) THEN <<"tf_directory cannot be empty">> ELSE << >>)
    \o (IF c.command \notin TerraformCommand
        THEN <<"Invalid command: " \o c.command>> ELSE << >>)

\* ActionConfig.validate: the list of error messages
validate(c) ==
    (IF ~Truthy(c.tf_directory) THEN <<"tf_directory cannot be empty">> ELSE << >>)
    \o (IF c.command \notin TerraformCommand
        THEN <<"Invalid command: " \o c.command>> ELSE << >>)
    \o (IF Truthy(c.workspace) /\ ~isalnum(Remove(Remove(Chars(c.workspace), "-"), "_"))
        THEN <<"Invalid workspace name: " \o c.workspace>> ELSE << >>)

--------------------------------------------------------------------------
(* terraform_runner.py: the command builders.  self is the runner, a record   *)
(* [config, terraform_path, dry_run].                                         *)

\* the loop "for tfvar_file in self.config.tfvars_files: cmd.append(...)"
var_file_flags(self) ==
    [i \in 1..Len(self.config.tfvars_files) |-> "-var-file=" \o self.config.tfvars_files[i]]

\* the loop "for key, value in self.config.var_overrides.items(): cmd.append(...)"
var_flags(self) ==
    [i \in 1..Len(self.config.var_overrides) |->
        "-var=" \o self.config.var_overrides[i][1] \o "=" \o self.config.var_overrides[i][2]]

\* build_init_command appending the backend flag whatever the configuration holds
build_init_command_AlwaysBackend(self) ==
    <<self.terraform_path, "init", "-input=false",
      "-backend-config=" \o self.config.backend_config_file>>

build_init_command(self) ==
    <<self.terraform_path, "init", "-input=false">>
    \o (IF Truthy(self.config.backend_config_file)
        THEN <<"-backend-config=" \o self.config.backend_config_file>> ELSE << >>)

build_validate_command(self) == <<self.terraform_path, "validate">>

\* build_plan_command with the two loops in the other order
build_plan_command_VarsFirst(self, out_file) ==
    <<self.terraform_path, "plan", "-input=false">>
    \o var_flags(self)
    \o var_file_flags(self)
    \o (IF Truthy(out_file) THEN <<"-out=" \o out_file>> ELSE << >>)

build_plan_command(self, out_file) ==
    <<self.terraform_path, "plan", "-input=false">>
    \o var_file_flags(self)
    \o var_flags(self)
    \o (IF Truthy(out_file) THEN <<"-out=" \o out_file>> ELSE << >>)

\* build_apply_command adding the variables beside the plan file
build_apply_command_WithVariables(self, plan_file) ==
    <<self.terraform_path, "apply", "-input=false", "-auto-approve">>
    \o (IF Truthy(plan_file) THEN <<plan_file>> ELSE << >>)
    \o var_file_flags(self) \o var_flags(self)

build_apply_command(self, plan_file) ==
    <<self.terraform_path, "apply", "-input=false", "-auto-approve">>
    \o (IF Truthy(plan_file) THEN <<plan_file>>
        ELSE var_file_flags(self) \o var_flags(self))

\* build_destroy_command with the two loops in the other order
build_destroy_command_VarsFirst(self) ==
    <<self.terraform_path, "destroy", "-input=false", "-auto-approve">>
    \o var_flags(self)
    \o var_file_flags(self)

build_destroy_command(self) ==
    <<self.terraform_path, "destroy", "-input=false", "-auto-approve">>
    \o var_file_flags(self)
    \o var_flags(self)

build_workspace_command(self) ==
    <<self.terraform_path, "workspace", "select", "-or-create=true", self.config.workspace>>

\* build_command: builders.get(command) is None for anything but the five values
Supported(command) == command \in TerraformCommand

\* str(value) in an f-string
Str(value) == IF value = None THEN "None" ELSE value

\* build_command: the message of the ValueError it raises
unsupported_command_error(command) == <<"Unsupported command: ", Str(command)>>

\* build_command remembering that it was called before
build_command_Stateful(self, command) ==
    (CASE command = "init"     -> build_init_command(self)
       [] command = "validate" -> build_validate_command(self)
       [] command = "plan"     -> build_plan_command(self, None)
       [] command = "apply"    -> build_apply_command(self, None)
       [] command = "destroy"  -> build_destroy_command(self))
    \o (IF built = << >> THEN << >> ELSE <<"-lock=false">>)

\* build_command handing destroy to the apply builder
build_command_Misrouted(self, command) ==
    CASE command = "init"     -> build_init_command(self)
      [] command = "validate" -> build_validate_command(self)
      [] command = "plan"     -> build_plan_command(self, None)
      [] command = "apply"    -> build_apply_command(self, None)
      [] command = "destroy"  -> build_apply_command(self, None)

\* build_command handing plan and apply a plan file
build_command_WithPlanFile(self, command) ==
    CASE command = "init"     -> build_init_command(self)
      [] command = "validate" -> build_validate_command(self)
      [] command = "plan"     -> build_plan_command(self, "tfplan")
      [] command = "apply"    -> build_apply_command(self, "tfplan")
      [] command = "destroy"  -> build_destroy_command(self)

\* build_command: builder(), every builder called with its defaults
build_command(self, command) ==
    CASE command = "init"     -> build_init_command(self)
      [] command = "validate" -> build_validate_command(self)
      [] command = "plan"     -> build_plan_command(self, None)
      [] command = "apply"    -> build_apply_command(self, None)
      [] command = "destroy"  -> build_destroy_command(self)

\* ' '.join(cmd) as chunks: the arguments with a " " between neighbours
JoinSpace(argv) ==
    [i \in 1..(IF argv = << >> THEN 0 ELSE 2 * Len(argv) - 1) |->
        IF i % 2 = 1 THEN argv[(i + 1) \div 2] ELSE " "]

CommandResult(rc, out, err, c) ==
    [return_code |-> rc, stdout |-> out, stderr |-> err, command |-> c]

\* the dry_run branch reporting a failure
DryRunResult_Fails(argv) ==
    CommandResult(1, <<"[DRY RUN] Would execute: ">> \o JoinSpace(argv), << >>, argv)

\* the dry_run branch joining the arguments without the separator
DryRunResult_Unseparated(argv) ==
    CommandResult(0, <<"[DRY RUN] Would execute: ">> \o argv, << >>, argv)

\* run_command, dry_run branch: the CommandResult returned
DryRunResult(argv) ==
    CommandResult(0, <<"[DRY RUN] Would execute: ">> \o JoinSpace(argv), << >>, argv)

\* the dry_run test never taken
IsDryRun_Never(self) == FALSE

\* run_command: "if self.dry_run:"
IsDryRun(self) == self.dry_run

\* subprocess.run(..., check=True)
check_True == TRUE

\* subprocess.run(..., check=False): whether a non-zero exit raises CalledProcessError
check == FALSE

\* the environment of a child started with "env=" an empty mapping
ChildEnv_Empty(environment) == << >>

\* subprocess.run is called without "env=": the child inherits os.environ
ChildEnv(environment) == environment

\* a child process that ran: its argument vector, its environment and what it left
CompletedProcess(args, env, returncode, out, err) ==
    [args |-> args, env |-> env, returncode |-> returncode, stdout |-> out, stderr |-> err]

\* the CommandResult built without the error stream
ResultOf_NoStderr(proc, argv) ==
    CommandResult(proc.returncode, proc.stdout, << >>, argv)

\* run_command, Real: the CommandResult built from the finished child
ResultOf(proc, argv) ==
    CommandResult(proc.returncode, proc.stdout, proc.stderr, argv)

\* the directory restored only when no exception is travelling
DirAfterFinally_OnSuccessOnly(original, current, exc) ==
    IF exc = NoException THEN original ELSE current

\* run_command, Real: "finally: os.chdir(original_dir)": where the process is afterwards
DirAfterFinally(original, current, exc) == original

\* the workspace test without its emptiness guard
SelectsWorkspace_NoEmptyGuard(self) == self.config.workspace # "default"

\* run(): "if self.config.workspace and self.config.workspace != 'default'"
SelectsWorkspace(self) == Truthy(self.config.workspace) /\ self.config.workspace # "default"

\* the workspace result never looked at
WorkspaceFailed_Ignored(res) == FALSE

\* run(): "if workspace_result.return_code != 0: return workspace_result"
WorkspaceFailed(res) == res.return_code # 0

\* TerraformRunner.__init__: self.terraform_path; None when _find_terraform raises
ResolvePath(terraform_path, found) == Or(terraform_path, found)

--------------------------------------------------------------------------
(* main.py *)

\* main(): TerraformRunner(config, dry_run=True)
\* main() constructing its runner in Real mode
MainRunnerArgs_Real == [terraform_path |-> None, dry_run |-> FALSE]

MainRunnerArgs == [terraform_path |-> None, dry_run |-> TRUE]

\* every failure reported as exit code 1
ExitCodeFor_Flattened(res) == IF res.return_code # 0 THEN 1 ELSE 0

\* main(): the value returned once run() has returned result
ExitCodeFor(res) == IF res.return_code # 0 THEN res.return_code ELSE 0

\* main(): the two github_output calls made with run()'s result
ReportOutputs(res) ==
    << <<"plan_output", res.stdout>>,
       <<"state_summary", <<"Exit code: " \o ToString(res.return_code)>>>> >>

\* main(): the two github_output calls of the "except RuntimeError" branch
NotInstalledOutputs ==
    << <<"plan_output", <<"Terraform not installed - dry run mode">>>>,
       <<"state_summary", <<"No state changes (dry run)">>>> >>

\* main(): the value returned by the "except RuntimeError" branch
NotInstalledExitCode == 0

--------------------------------------------------------------------------
(* azure_auth.py.  os.environ is a function from variable names to values,  *)
(* None for a variable that is not set; an AzureAuthenticator (self) is a   *)
(* record of its three fields.  A call's outcome is the credentials it      *)
(* returned or the exception it raised; an exception's message is a         *)
(* sequence of chunks.                                                      *)

AuthMethod == {"oidc", "service_principal", "managed_identity", "cli"}

NoAuthenticator == [none |-> "authenticator"]
NoCredentials == [none |-> "credentials"]
NoError == [none |-> "error"]
NoEnvVars == [none |-> "env_vars"]

AzureCredentials(subscription_id, tenant_id, client_id, client_secret, token, auth_method) ==
    [ subscription_id |-> subscription_id, tenant_id |-> tenant_id, client_id |-> client_id,
      client_secret |-> client_secret, token |-> token, auth_method |-> auth_method ]

\* AzureAuthenticator.__init__: "self.client_id = client_id or ''"
AzureAuthenticator(subscription_id, tenant_id, client_id) ==
    [ subscription_id |-> subscription_id, tenant_id |-> tenant_id,
      client_id |-> Or(client_id, "") ]

Ok(c) == [credentials |-> c, error |-> NoError]
Err(type, message) ==
    [credentials |-> NoCredentials, error |-> [type |-> type, message |-> message]]

\* the detection testing the client secret before the request token
detect_auth_method_SecretFirst(env) ==
    IF Truthy(Or(env.AZURE_CLIENT_SECRET, env.ARM_CLIENT_SECRET)) THEN "service_principal"
    ELSE IF Truthy(env.ACTIONS_ID_TOKEN_REQUEST_TOKEN) THEN "oidc"
    ELSE IF Truthy(Or(env.MSI_ENDPOINT, env.IDENTITY_ENDPOINT)) THEN "managed_identity"
    ELSE "cli"

detect_auth_method(env) ==
    IF Truthy(env.ACTIONS_ID_TOKEN_REQUEST_TOKEN) THEN "oidc"
    ELSE IF Truthy(Or(env.AZURE_CLIENT_SECRET, env.ARM_CLIENT_SECRET)) THEN "service_principal"
    ELSE IF Truthy(Or(env.MSI_ENDPOINT, env.IDENTITY_ENDPOINT)) THEN "managed_identity"
    ELSE "cli"

authenticate_oidc(self) ==
    Err("NotImplementedError",
        << "OIDC authentication is not yet implemented. ",
           "As a workaround, use the 'azure/login' action before calling avm-action. ",
           "See docs/architecture.md for planned implementation." >>)

\* the service principal call reading AZURE_CLIENT_SECRET alone
authenticate_service_principal_AzureOnly(self, env) ==
    LET client_secret == env.AZURE_CLIENT_SECRET
    IN  IF ~Truthy(client_secret)
        THEN Err("ValueError",
                 << "Service principal authentication requires ", "AZURE_CLIENT_SECRET", " ",
                    "or ", "ARM_CLIENT_SECRET", " environment variable." >>)
        ELSE Ok(AzureCredentials(self.subscription_id, self.tenant_id, self.client_id,
                                 client_secret, "", "service_principal"))

authenticate_service_principal(self, env) ==
    LET client_secret == Or(env.AZURE_CLIENT_SECRET, env.ARM_CLIENT_SECRET)
    IN  IF ~Truthy(client_secret)
        THEN Err("ValueError",
                 << "Service principal authentication requires ", "AZURE_CLIENT_SECRET", " ",
                    "or ", "ARM_CLIENT_SECRET", " environment variable." >>)
        ELSE Ok(AzureCredentials(self.subscription_id, self.tenant_id, self.client_id,
                                 client_secret, "", "service_principal"))

\* the CLI call leaving the client id out
authenticate_cli_NoClientId(self) ==
    Ok(AzureCredentials(self.subscription_id, self.tenant_id, "", "", "", "cli"))

authenticate_cli(self) ==
    Ok(AzureCredentials(self.subscription_id, self.tenant_id, self.client_id, "", "", "cli"))

\* authenticate() falling back to the CLI session for managed identity
authenticate_ManagedFallsBack(self, env) ==
    LET m == detect_auth_method(env)
    IN  CASE m = "oidc"              -> authenticate_oidc(self)
          [] m = "service_principal" -> authenticate_service_principal(self, env)
          [] OTHER                   -> authenticate_cli(self)

authenticate(self, env) ==
    LET m == detect_auth_method(env)
    IN  CASE m = "oidc"              -> authenticate_oidc(self)
          [] m = "service_principal" -> authenticate_service_principal(self, env)
          [] m = "managed_identity"  ->
                Err("NotImplementedError",
                    << "Managed Identity authentication not yet implemented. ",
                       "As a workaround, use the 'azure/login' action with managed identity, ",
                       "or use CLI authentication by running 'az login' first." >>)
          [] OTHER                   -> authenticate_cli(self)

\* the mapping always carrying the client secret
set_terraform_env_vars_AlwaysSecret(c) ==
    (IF Truthy(c.token)
     THEN ("ARM_OIDC_TOKEN" :> c.token) @@ ("ARM_USE_OIDC" :> "true") ELSE << >>)
    @@ ("ARM_CLIENT_SECRET" :> c.client_secret)
    @@ (IF Truthy(c.client_id) THEN "ARM_CLIENT_ID" :> c.client_id ELSE << >>)
    @@ ("ARM_SUBSCRIPTION_ID" :> c.subscription_id) @@ ("ARM_TENANT_ID" :> c.tenant_id)

\* the dict set_terraform_env_vars returns, as a function from its keys
set_terraform_env_vars(c) ==
    (IF Truthy(c.token)
     THEN ("ARM_OIDC_TOKEN" :> c.token) @@ ("ARM_USE_OIDC" :> "true") ELSE << >>)
    @@ (IF Truthy(c.client_secret) THEN "ARM_CLIENT_SECRET" :> c.client_secret ELSE << >>)
    @@ (IF Truthy(c.client_id) THEN "ARM_CLIENT_ID" :> c.client_id ELSE << >>)
    @@ ("ARM_SUBSCRIPTION_ID" :> c.subscription_id) @@ ("ARM_TENANT_ID" :> c.tenant_id)

--------------------------------------------------------------------------
(* The environment: what the entry points are given. *)

\* os.environ, as far as the credential code reads it
Ambients ==
    [ ACTIONS_ID_TOKEN_REQUEST_TOKEN : {None, "", "request-token"},
      AZURE_CLIENT_SECRET : {None, "", "azure-secret"},
      ARM_CLIENT_SECRET : {None, "arm-secret"},
      MSI_ENDPOINT : {None, "http://msi"},
      IDENTITY_ENDPOINT : {None, "http://identity"} ]

NoSignals ==
    [ ACTIONS_ID_TOKEN_REQUEST_TOKEN |-> None, AZURE_CLIENT_SECRET |-> None,
      ARM_CLIENT_SECRET |-> None, MSI_ENDPOINT |-> None, IDENTITY_ENDPOINT |-> None ]

\* the two environments the driver is started in: nothing set, and a pipeline
\* with an OIDC request token and a client secret left over
AmbientSamples ==
    { NoSignals,
      [NoSignals EXCEPT !.ACTIONS_ID_TOKEN_REQUEST_TOKEN = "request-token",
                        !.ARM_CLIENT_SECRET = "arm-secret"] }

\* the authenticators of the unit tests' fixture, with and without a client id
Authenticators ==
    { AzureAuthenticator("sub-123", "tenant-456", c) : c \in {None, "", "client-789"} }

\* every AzureCredentials over a filled and an empty value of each field
AllCredentials ==
    { AzureCredentials(s, t, c, k, o, m) :
        s \in {"", "sub-123"}, t \in {"", "tenant-456"}, c \in {"", "client-789"},
        k \in {"", "secret"}, o \in {"", "oidc-token"}, m \in AuthMethod }

FileFields == {"dev.tfvars", " common.tfvars", " "}
OverridePairs == {<<"env", "dev">>, <<"count", "3">>, <<"env", "prod">>}
RawCommands == {None, "init", "validate", " Plan ", "Apply", "DESTROY", "invalid_command"}
Workspaces == {"default", "staging", "", "bad ws!", "dev-1_a", "-_"}
Directories == {".", "", "./terraform"}
TerraformPath == "/usr/bin/terraform"
StartDir == "/work"

\* the outputs a child process may produce
ChildStdout == {<< >>, <<"Plan: 1 to add.">>}
ChildStderr == {<< >>, <<"Error: backend unreachable">>}
ExitCodes == 0..MaxExitCode

\* os.chdir(directory) from StartDir: where it leads
ChdirTarget(directory) ==
    CASE directory = "."           -> StartDir
      [] directory = "./terraform" -> StartDir \o "/terraform"
      [] OTHER                     -> None

EmptyEnviron ==
    [ command |-> None, tf_directory |-> None, workspace |-> None,
      backend_config_file |-> None, tfvars_files |-> << >>, var_overrides |-> << >> ]

\* the two configurations of the unit tests' fixtures, with the given operation,
\* workspace and directory
FixtureConfigs ==
    { [ tf_directory |-> d, tfvars_files |-> f[1], backend_config_file |-> f[2],
        command |-> c, workspace |-> w, var_overrides |-> f[3] ] :
        d \in Directories, c \in TerraformCommand \cup {"bogus"}, w \in Workspaces,
        f \in { << << >>, "", << >> >>,
                << <<"dev.tfvars", "common.tfvars">>, "backend.hcl",
                   << <<"env", "dev">>, <<"count", "3">> >> >> } }

\* the vectors run_command is called with directly
DirectVectors == { << >>, <<"terraform", "plan">>, <<TerraformPath, "apply", "-var=a=b c">> }

--------------------------------------------------------------------------
(* The state machine. *)

inputs == <<entry, environ, which, arg_path, arg_dry_run, ambient, arg>>

\* the credential code's state
auth == <<authenticator, method, credentials, auth_error, env_vars, auth_calls>>

\* no credential code has run
Unauthenticated ==
    /\ authenticator = NoAuthenticator
    /\ method = None
    /\ credentials = NoCredentials
    /\ auth_error = NoError
    /\ env_vars = NoEnvVars
    /\ auth_calls = 0

\* nothing has run yet
Fresh ==
    /\ runner = NoRunner
    /\ phase = "none"
    /\ original_dir = None
    /\ pending = NoException
    /\ returning = NoResult
    /\ workspace_result = NoResult
    /\ result = NoResult
    /\ raised = NoException
    /\ exit_code = << >>
    /\ cwd = StartDir
    /\ built = << >>
    /\ executed = << >>
    /\ finished = 0
    /\ spawned = << >>
    /\ chdirs = 0
    /\ outputs = << >>
    /\ annotations = << >>
    /\ Unauthenticated
    /\ arg = None
    /\ build_error = << >>

\* main() is about to start in some environment
InitMain ==
    /\ entry = "main"
    /\ environ \in [ command : RawCommands,
                     tf_directory : {None, "", "./terraform"},
                     workspace : {None} \cup (Workspaces \ {"default"}),
                     backend_config_file : {None, "backend.hcl"},
                     tfvars_files : SeqsUpTo(FileFields, MaxFiles),
                     var_overrides : SeqsUpTo(OverridePairs, MaxOverrides) ]
    /\ ambient \in AmbientSamples
    /\ which \in {None, TerraformPath}
    /\ arg_path = None
    /\ arg_dry_run = TRUE
    /\ config = NoConfig
    /\ cmd = << >>
    /\ pc = "load"
    /\ Fresh

\* TerraformRunner(config, terraform_path, dry_run).run() is about to be called
InitRun ==
    /\ entry = "run"
    /\ environ = EmptyEnviron
    /\ ambient \in AmbientSamples
    /\ which \in {None, TerraformPath}
    /\ arg_path \in {None, TerraformPath}
    /\ arg_dry_run \in BOOLEAN
    /\ config \in FixtureConfigs
    /\ cmd = << >>
    /\ pc = "construct"
    /\ Fresh

\* TerraformRunner(config, terraform_path, dry_run).run_command(cmd) is about to be called
InitRunCommand ==
    /\ entry = "run_command"
    /\ environ = EmptyEnviron
    /\ ambient \in AmbientSamples
    /\ which \in {None, TerraformPath}
    /\ arg_path \in {None, TerraformPath}
    /\ arg_dry_run \in BOOLEAN
    /\ config \in {c \in FixtureConfigs : c.command = "plan" /\ c.workspace = "default"}
    /\ cmd \in DirectVectors
    /\ pc = "construct"
    /\ Fresh

Init == InitMain \/ InitRun \/ InitRunCommand

\* an exception leaves run() or run_command(): main() catches it ("except ValueError",
\* "except Exception": github_error, return 1); a direct caller receives it
Raise(exc) ==
    /\ pc' = "done"
    /\ IF entry = "main"
       THEN /\ exit_code' = <<1>>
            /\ annotations' = Append(annotations, IF exc = "ValueError" THEN exc
                                                   ELSE "Unexpected error: " \o exc)
            /\ raised' = raised
       ELSE /\ raised' = exc
            /\ UNCHANGED <<exit_code, annotations>>

\* a failed main command handed to run_command once more
ReturnPoint_Retry(ph, res) ==
    CASE ph = "workspace" -> "after_ws"
      [] ph = "main"      -> IF res.return_code # 0 /\ Len(executed) < 3 THEN "rc_enter"
                             ELSE IF entry = "main" THEN "report" ELSE "done"
      [] ph = "direct"    -> "done"

\* the position after run_command returned res in the given phase
ReturnPoint(ph, res) ==
    CASE ph = "workspace" -> "after_ws"
      [] ph = "main"      -> IF entry = "main" THEN "report" ELSE "done"
      [] ph = "direct"    -> "done"

\* run_command returns res to its caller
Return(res) ==
    /\ pc' = ReturnPoint(phase, res)
    /\ IF phase = "workspace"
       THEN workspace_result' = res /\ result' = result
       ELSE result' = res /\ workspace_result' = workspace_result
    /\ UNCHANGED <<exit_code, annotations, raised>>

\* main(): load_config_from_env(), config.validate()
MainLoad ==
    /\ pc = "load"
    /\ LET c == load_config_from_env(environ)
       IN  IF c.command = None
           THEN \* _parse_command raised ValueError: "except ValueError"
                /\ annotations' =
                      Append(annotations,
                             parse_command_error(get_input(environ, "command", "plan")))
                /\ exit_code' = <<1>>
                /\ pc' = "done"
                /\ config' = config
           ELSE /\ config' = c
                /\ annotations' = annotations \o validate(c)
                /\ IF validate(c) # << >>
                   THEN exit_code' = <<1>> /\ pc' = "done"
                   ELSE exit_code' = exit_code /\ pc' = "construct"
    /\ UNCHANGED <<finished, inputs, auth, build_error, runner, phase, cmd, original_dir, pending, returning,
                   workspace_result, result, raised, cwd, built, executed, spawned,
                   chdirs, outputs>>

\* TerraformRunner.__init__ (and main()'s "except RuntimeError" around it)
Construct ==
    /\ pc = "construct"
    /\ LET a == IF entry = "main" THEN MainRunnerArgs
                ELSE [terraform_path |-> arg_path, dry_run |-> arg_dry_run]
           path == ResolvePath(a.terraform_path, which)
       IN  IF Truthy(path)
           THEN /\ runner' = [config |-> config, terraform_path |-> path,
                              dry_run |-> a.dry_run]
                /\ pc' = IF entry = "run_command" THEN "rc_enter" ELSE "run"
                /\ phase' = IF entry = "run_command" THEN "direct" ELSE phase
                /\ UNCHANGED <<outputs, exit_code, raised>>
           ELSE \* _find_terraform raised RuntimeError
                /\ pc' = "done"
                /\ UNCHANGED <<runner, phase>>
                /\ IF entry = "main"
                   THEN /\ outputs' = outputs \o NotInstalledOutputs
                        /\ exit_code' = <<NotInstalledExitCode>>
                        /\ raised' = raised
                   ELSE /\ raised' = "RuntimeError"
                        /\ UNCHANGED <<outputs, exit_code>>
    /\ UNCHANGED <<finished, inputs, auth, build_error, config, cmd, original_dir, pending, returning,
                   workspace_result, result, cwd, built, executed, spawned, chdirs,
                   annotations>>

\* run(): "cmd = self.build_command(self.config.command)" and the call of run_command
BuildMain ==
    IF Supported(runner.config.command)
    THEN /\ built' = Append(built, build_command(runner, runner.config.command))
         /\ cmd' = build_command(runner, runner.config.command)
         /\ phase' = "main"
         /\ pc' = "rc_enter"
         /\ UNCHANGED <<exit_code, annotations, raised, build_error>>
    ELSE \* raise ValueError(f"Unsupported command: {command}")
         /\ Raise("ValueError")
         /\ build_error' = unsupported_command_error(runner.config.command)
         /\ UNCHANGED <<built, cmd, phase>>

\* run(), up to its first call of run_command
RunStart ==
    /\ pc = "run"
    /\ IF SelectsWorkspace(runner)
       THEN /\ built' = Append(built, build_workspace_command(runner))
            /\ cmd' = build_workspace_command(runner)
            /\ phase' = "workspace"
            /\ pc' = "rc_enter"
            /\ UNCHANGED <<exit_code, annotations, raised, build_error>>
       ELSE BuildMain
    /\ UNCHANGED <<finished, inputs, auth, config, runner, original_dir, pending, returning,
                   workspace_result, result, cwd, executed, spawned, chdirs, outputs>>

\* run(), after the workspace command returned
AfterWorkspace ==
    /\ pc = "after_ws"
    /\ IF WorkspaceFailed(workspace_result)
       THEN /\ result' = workspace_result
            /\ pc' = IF entry = "main" THEN "report" ELSE "done"
            /\ UNCHANGED <<built, cmd, phase, exit_code, annotations, raised, build_error>>
       ELSE /\ BuildMain
            /\ result' = result
    /\ UNCHANGED <<finished, inputs, auth, config, runner, original_dir, pending, returning,
                   workspace_result, cwd, executed, spawned, chdirs, outputs>>

\* run_command, Simulated: the whole call
RunCommandDry ==
    /\ pc = "rc_enter"
    /\ IsDryRun(runner)
    /\ executed' = Append(executed, cmd)
    /\ finished' = finished + 1
    /\ Return(DryRunResult(cmd))
    /\ UNCHANGED <<inputs, auth, build_error, config, runner, phase, cmd, original_dir, pending, returning,
                   cwd, built, spawned, chdirs, outputs>>

\* run_command, Real: original_dir = os.getcwd(); os.chdir(self.config.tf_directory)
RunCommandChdir ==
    /\ pc = "rc_enter"
    /\ ~IsDryRun(runner)
    /\ executed' = Append(executed, cmd)
    /\ original_dir' = cwd
    /\ chdirs' = chdirs + 1
    /\ \E exists \in BOOLEAN :
          IF exists /\ ChdirTarget(runner.config.tf_directory) # None
          THEN /\ cwd' = ChdirTarget(runner.config.tf_directory)
               /\ pending' = pending
               /\ pc' = "rc_spawn"
          ELSE \* os.chdir raised: straight to the finally clause
               /\ cwd' = cwd
               /\ pending' = "FileNotFoundError"
               /\ pc' = "rc_finally"
    /\ UNCHANGED <<finished, inputs, auth, build_error, config, runner, phase, cmd, returning, workspace_result,
                   result, raised, exit_code, built, spawned, outputs, annotations>>

\* run_command, Real: subprocess.run(cmd, capture_output=True, text=True, check=False)
RunCommandSpawn ==
    /\ pc = "rc_spawn"
    /\ pc' = "rc_finally"
    /\ \/ \* the child ran and exited
          /\ cmd # << >>
          /\ \E rc \in ExitCodes, out \in ChildStdout, err \in ChildStderr :
                LET proc == CompletedProcess(cmd, ChildEnv(ambient), rc, out, err)
                IN  /\ spawned' = Append(spawned, proc)
                    /\ IF check /\ rc # 0
                       THEN pending' = "CalledProcessError" /\ returning' = returning
                       ELSE pending' = pending /\ returning' = ResultOf(proc, cmd)
       \/ \* the program could not be started
          /\ pending' = IF cmd = << >> THEN "IndexError" ELSE "OSError"
          /\ UNCHANGED <<spawned, returning>>
    /\ UNCHANGED <<finished, inputs, auth, build_error, config, runner, phase, cmd, original_dir, workspace_result,
                   result, raised, exit_code, cwd, built, executed, chdirs, outputs,
                   annotations>>

\* run_command, Real: "finally: os.chdir(original_dir)", then return or re-raise
RunCommandFinally ==
    /\ pc = "rc_finally"
    /\ cwd' = DirAfterFinally(original_dir, cwd, pending)
    /\ chdirs' = chdirs + 1
    /\ finished' = finished + 1
    /\ IF pending = NoException
       THEN Return(returning)
       ELSE Raise(pending) /\ UNCHANGED <<workspace_result, result>>
    /\ UNCHANGED <<inputs, auth, build_error, config, runner, phase, cmd, original_dir, pending, returning,
                   built, executed, spawned, outputs>>

\* main(), after run() returned
MainReport ==
    /\ pc = "report"
    /\ outputs' = outputs \o ReportOutputs(result)
    /\ exit_code' = <<ExitCodeFor(result)>>
    /\ pc' = "done"
    /\ UNCHANGED <<finished, inputs, auth, build_error, config, runner, phase, cmd, original_dir, pending, returning,
                   workspace_result, result, raised, cwd, built, executed, spawned,
                   chdirs, annotations>>

Next ==
    \/ MainLoad
    \/ Construct
    \/ RunStart
    \/ AfterWorkspace
    \/ RunCommandDry
    \/ RunCommandChdir
    \/ RunCommandSpawn
    \/ RunCommandFinally
    \/ MainReport

Spec == Init /\ [][Next]_vars

--------------------------------------------------------------------------
(* main()'s handling of what run() returned, for every CommandResult that   *)
(* TerraformRunner.run() returns in either mode: main.py line 62 onwards.    *)

\* what run() can return for runner r: the main vector's result, or in Real mode
\* the failed workspace selection's
RunResults(r) ==
    IF r.dry_run
    THEN {DryRunResult(build_command(r, r.config.command))}
    ELSE {CommandResult(rc, out, err, build_command(r, r.config.command)) :
             rc \in ExitCodes, out \in ChildStdout, err \in ChildStderr}
         \cup (IF SelectsWorkspace(r)
               THEN {CommandResult(rc, out, err, build_workspace_command(r)) :
                        rc \in ExitCodes \ {0}, out \in ChildStdout, err \in ChildStderr}
               ELSE {})

\* the vectors run() executed when it returned res
RunTrace(r, res) ==
    IF ~SelectsWorkspace(r) THEN <<res.command>>
    ELSE IF res.command = build_workspace_command(r) THEN <<res.command>>
    ELSE <<build_workspace_command(r), res.command>>

\* "result = runner.run()" has just returned in main()
InitReport ==
    /\ entry = "main"
    /\ environ = EmptyEnviron
    /\ ambient \in AmbientSamples
    /\ Unauthenticated
    /\ arg = None
    /\ build_error = << >>
    /\ which = TerraformPath
    /\ arg_path = None
    /\ arg_dry_run = TRUE
    /\ config \in {c \in FixtureConfigs :
                      validate(c) = << >> /\ c.workspace # "" /\ c.tf_directory = "."}
    /\ \E dry \in BOOLEAN :
          runner = [config |-> config, terraform_path |-> TerraformPath, dry_run |-> dry]
    /\ result \in RunResults(runner)
    /\ executed = RunTrace(runner, result)
    /\ built = executed
    /\ finished = Len(executed)
    /\ spawned =
          IF runner.dry_run THEN << >>
          ELSE [i \in 1..Len(executed) |->
                   IF i = Len(executed)
                   THEN CompletedProcess(executed[i], ChildEnv(ambient), result.return_code,
                                         result.stdout, result.stderr)
                   ELSE CompletedProcess(executed[i], ChildEnv(ambient), 0, << >>, << >>)]
    /\ chdirs = IF runner.dry_run THEN 0 ELSE 2 * Len(executed)
    /\ workspace_result =
          IF ~SelectsWorkspace(runner) THEN NoResult
          ELSE IF Len(executed) = 1 THEN result
          ELSE IF runner.dry_run THEN DryRunResult(executed[1])
          ELSE CommandResult(0, << >>, << >>, executed[1])
    /\ returning = IF runner.dry_run THEN NoResult ELSE result
    /\ phase = IF Len(executed) = 1 /\ SelectsWorkspace(runner) THEN "workspace" ELSE "main"
    /\ cmd = result.command
    /\ original_dir = IF runner.dry_run THEN None ELSE StartDir
    /\ pending = NoException
    /\ raised = NoException
    /\ exit_code = << >>
    /\ cwd = StartDir
    /\ outputs = << >>
    /\ annotations = << >>
    /\ pc = "report"

SpecReport == InitReport /\ [][MainReport]_vars

--------------------------------------------------------------------------
(* The credential code called on its own, as the unit tests call it: one    *)
(* behaviour is one call of a method of an AzureAuthenticator in some       *)
(* environment, followed by set_terraform_env_vars on what it returned.     *)

\* the driver's state: untouched by the credential code
driver == <<config, runner, phase, cmd, original_dir, pending, returning, workspace_result,
            result, raised, exit_code, cwd, built, executed, finished, spawned, chdirs,
            outputs, annotations, build_error>>

AuthEntries ==
    {"detect_auth_method", "authenticate", "authenticate_oidc",
     "authenticate_service_principal", "authenticate_cli"}

\* a method of an authenticator is about to be called
InitAuthCall ==
    /\ entry \in AuthEntries
    /\ ambient \in Ambients
    /\ authenticator \in Authenticators
    /\ credentials = NoCredentials
    /\ pc = "call"

\* set_terraform_env_vars(credentials) is about to be called
InitProject ==
    /\ entry = "set_terraform_env_vars"
    /\ ambient = NoSignals
    /\ authenticator = AzureAuthenticator("sub-123", "tenant-456", "client-789")
    /\ credentials \in AllCredentials
    /\ pc = "project"

InitAuth ==
    /\ InitAuthCall \/ InitProject
    /\ method = None
    /\ auth_error = NoError
    /\ env_vars = NoEnvVars
    /\ auth_calls = 0
    /\ arg = None
    /\ build_error = << >>
    /\ environ = EmptyEnviron
    /\ which = None
    /\ arg_path = None
    /\ arg_dry_run = TRUE
    /\ config = NoConfig
    /\ cmd = << >>
    /\ runner = NoRunner
    /\ phase = "none"
    /\ original_dir = None
    /\ pending = NoException
    /\ returning = NoResult
    /\ workspace_result = NoResult
    /\ result = NoResult
    /\ raised = NoException
    /\ exit_code = << >>
    /\ cwd = StartDir
    /\ built = << >>
    /\ executed = << >>
    /\ finished = 0
    /\ spawned = << >>
    /\ chdirs = 0
    /\ outputs = << >>
    /\ annotations = << >>

\* an authenticate call ends with outcome o
Outcome(o) ==
    /\ credentials' = o.credentials
    /\ auth_error' = o.error
    /\ pc' = IF o.error = NoError THEN "project" ELSE "done"

DetectAuthMethod ==
    /\ pc = "call"
    /\ entry = "detect_auth_method"
    /\ method' = detect_auth_method(ambient)
    /\ pc' = "done"
    /\ UNCHANGED <<inputs, driver, authenticator, credentials, auth_error, env_vars,
                   auth_calls>>

Authenticate ==
    /\ pc = "call"
    /\ entry = "authenticate"
    /\ method' = detect_auth_method(ambient)
    /\ auth_calls' = auth_calls + 1
    /\ Outcome(authenticate(authenticator, ambient))
    /\ UNCHANGED <<inputs, driver, authenticator, env_vars>>

AuthenticateOidc ==
    /\ pc = "call"
    /\ entry = "authenticate_oidc"
    /\ Outcome(authenticate_oidc(authenticator))
    /\ UNCHANGED <<inputs, driver, authenticator, method, env_vars, auth_calls>>

AuthenticateServicePrincipal ==
    /\ pc = "call"
    /\ entry = "authenticate_service_principal"
    /\ Outcome(authenticate_service_principal(authenticator, ambient))
    /\ UNCHANGED <<inputs, driver, authenticator, method, env_vars, auth_calls>>

AuthenticateCli ==
    /\ pc = "call"
    /\ entry = "authenticate_cli"
    /\ Outcome(authenticate_cli(authenticator))
    /\ UNCHANGED <<inputs, driver, authenticator, method, env_vars, auth_calls>>

SetTerraformEnvVars ==
    /\ pc = "project"
    /\ env_vars' = set_terraform_env_vars(credentials)
    /\ pc' = "done"
    /\ UNCHANGED <<inputs, driver, authenticator, method, credentials, auth_error,
                   auth_calls>>

NextAuth ==
    \/ DetectAuthMethod
    \/ Authenticate
    \/ AuthenticateOidc
    \/ AuthenticateServicePrincipal
    \/ AuthenticateCli
    \/ SetTerraformEnvVars

SpecAuth == InitAuth /\ [][NextAuth]_vars

--------------------------------------------------------------------------
(* The builders called on their own, as the unit tests call them: one       *)
(* behaviour is one builder of one runner called twice with one argument.   *)

\* the configurations the builders are given: every list of files and every dict
\* of overrides within the bounds, with and without a backend file and a workspace
BuildConfigs ==
    { [ tf_directory |-> ".", tfvars_files |-> f, backend_config_file |-> b,
        command |-> "plan", workspace |-> w, var_overrides |-> parse_var_overrides(o) ] :
        f \in SeqsUpTo({"dev.tfvars", "common.tfvars"}, MaxFiles),
        b \in {"", "backend.hcl"}, w \in {"default", "staging"},
        o \in SeqsUpTo(OverridePairs, MaxOverrides) }

\* the optional file argument of build_plan_command and build_apply_command
FileArguments == {None, "", "tfplan"}

\* what build_command is asked for: the five values and two that are none of them
CommandArguments == TerraformCommand \cup {"bogus", None}

\* how often the builder is called
Builds == 2

BuildEntries ==
    {"build_command", "build_init_command", "build_validate_command", "build_plan_command",
     "build_apply_command", "build_destroy_command", "build_workspace_command"}

\* a builder of a constructed runner is about to be called
InitBuild ==
    /\ entry \in BuildEntries
    /\ config \in BuildConfigs
    /\ arg_path \in {TerraformPath, "terraform"}
    /\ arg_dry_run = TRUE
    /\ runner = [config |-> config, terraform_path |-> arg_path, dry_run |-> arg_dry_run]
    /\ arg \in CASE entry = "build_command" -> CommandArguments
                [] entry \in {"build_plan_command", "build_apply_command"} -> FileArguments
                [] OTHER -> {None}
    /\ pc = "build"
    /\ environ = EmptyEnviron
    /\ ambient = NoSignals
    /\ which = None
    /\ Unauthenticated
    /\ build_error = << >>
    /\ cmd = << >>
    /\ phase = "none"
    /\ original_dir = None
    /\ pending = NoException
    /\ returning = NoResult
    /\ workspace_result = NoResult
    /\ result = NoResult
    /\ raised = NoException
    /\ exit_code = << >>
    /\ cwd = StartDir
    /\ built = << >>
    /\ executed = << >>
    /\ finished = 0
    /\ spawned = << >>
    /\ chdirs = 0
    /\ outputs = << >>
    /\ annotations = << >>

\* what a call of a builder leaves alone
building == <<inputs, auth, config, runner, phase, cmd, original_dir, pending, returning,
              workspace_result, result, exit_code, cwd, executed, finished, spawned, chdirs,
              outputs, annotations>>

\* the builder returned argv
Built(argv) ==
    /\ built' = Append(built, argv)
    /\ pc' = IF Len(built) + 1 = Builds THEN "done" ELSE "build"
    /\ UNCHANGED <<raised, build_error, building>>

BuildCommand ==
    /\ pc = "build"
    /\ entry = "build_command"
    /\ IF Supported(arg)
       THEN Built(build_command(runner, arg))
       ELSE /\ raised' = "ValueError"
            /\ build_error' = unsupported_command_error(arg)
            /\ pc' = "done"
            /\ UNCHANGED <<built, building>>

BuildInitCommand ==
    /\ pc = "build"
    /\ entry = "build_init_command"
    /\ Built(build_init_command(runner))

BuildValidateCommand ==
    /\ pc = "build"
    /\ entry = "build_validate_command"
    /\ Built(build_validate_command(runner))

BuildPlanCommand ==
    /\ pc = "build"
    /\ entry = "build_plan_command"
    /\ Built(build_plan_command(runner, arg))

BuildApplyCommand ==
    /\ pc = "build"
    /\ entry = "build_apply_command"
    /\ Built(build_apply_command(runner, arg))

BuildDestroyCommand ==
    /\ pc = "build"
    /\ entry = "build_destroy_command"
    /\ Built(build_destroy_command(runner))

BuildWorkspaceCommand ==
    /\ pc = "build"
    /\ entry = "build_workspace_command"
    /\ Built(build_workspace_command(runner))

NextBuild ==
    \/ BuildCommand
    \/ BuildInitCommand
    \/ BuildValidateCommand
    \/ BuildPlanCommand
    \/ BuildApplyCommand
    \/ BuildDestroyCommand
    \/ BuildWorkspaceCommand

SpecBuild == InitBuild /\ [][NextBuild]_vars

--------------------------------------------------------------------------
(* The claims.  The entry points that call run() are "main" and "run". *)

CallsRun == entry \in {"main", "run"}

\* run() has returned (to main(), or to its direct caller)
RunReturned == CallsRun /\ pc \in {"report", "done"} /\ result # NoResult

IsWorkspaceVector(v) == Len(v) >= 2 /\ v[2] = "workspace"
IsMainVector(v) == Len(v) >= 2 /\ v[2] \in TerraformCommand

WorkspaceReturnedNonZero ==
    CallsRun /\ workspace_result # NoResult /\ workspace_result.return_code # 0

\* C1: once the workspace-selection command has returned a non-zero exit code,
\* no main-operation vector is ever built or executed, and when run() returns,
\* what it returns is that workspace result.
C1_WorkspaceFailureAborts ==
    WorkspaceReturnedNonZero =>
        /\ \A i \in 1..Len(built) : ~IsMainVector(built[i])
        /\ \A i \in 1..Len(executed) : ~IsMainVector(executed[i])
        /\ Len(built) = 1 /\ Len(executed) = 1
        /\ pc \in {"after_ws", "report", "done"}
        /\ pc \in {"report", "done"} => result = workspace_result /\ raised = NoException

C1_Witness ==
    /\ WorkspaceReturnedNonZero
    /\ pc = "done"
    /\ result = workspace_result
    /\ IsWorkspaceVector(result.command)

\* the workspace-selection vector as the specification words it
SelectOrCreate(tool, name) == <<tool, "workspace", "select", "-or-create=true", name>>

\* run() is over (returned or raised) for a configuration that passes validate()
ValidRunOver ==
    /\ CallsRun
    /\ pc = "done"
    /\ runner # NoRunner
    /\ validate(runner.config) = << >>

WorkspaceIssued ==
    \E i \in 1..Len(executed) :
        executed[i] = SelectOrCreate(runner.terraform_path, runner.config.workspace)

C2_EmptyWitness ==
    /\ ValidRunOver
    /\ runner.config.workspace = ""
    /\ executed # << >>
    /\ ~WorkspaceIssued

\* how many workspace-selection vectors, and how many main vectors, seq holds
CountWorkspace(seq) == Cardinality({i \in 1..Len(seq) : IsWorkspaceVector(seq[i])})
CountMain(seq) == Cardinality({i \in 1..Len(seq) : IsMainVector(seq[i])})

\* C3: within one run the commands are executed one after another with no retry:
\* each of the two commands is handed to run_command at most once, at most one
\* invocation is in progress at any time, and when the main command has been
\* handed over after a workspace selection, that selection has already completed.
C3_SequentialNoRetry ==
    CallsRun =>
        /\ CountWorkspace(executed) <= 1
        /\ CountMain(executed) <= 1
        /\ Len(executed) = CountWorkspace(executed) + CountMain(executed)
        /\ Len(executed) - finished \in {0, 1}
        /\ Len(spawned) <= Len(executed)
        /\ (CountMain(executed) = 1 /\ CountWorkspace(executed) = 1) =>
              /\ IsWorkspaceVector(executed[1])
              /\ IsMainVector(executed[2])
              /\ finished >= 1
              /\ workspace_result # NoResult
              /\ workspace_result.command = executed[1]

\* a Real run whose workspace selection succeeded and whose main command failed:
\* two invocations, both over, the failure not retried
C3_Witness ==
    /\ entry = "run"
    /\ pc = "done"
    /\ runner # NoRunner
    /\ ~runner.dry_run
    /\ Len(executed) = 2
    /\ finished = 2
    /\ Len(spawned) = 2
    /\ result # NoResult
    /\ result.return_code # 0

\* w is a subsequence of t: the elements of w occur in t, in w's order
RECURSIVE IsSubsequence(_, _)
IsSubsequence(w, t) ==
    IF w = << >> THEN TRUE
    ELSE IF t = << >> THEN FALSE
    ELSE IF Head(w) = Head(t) THEN IsSubsequence(Tail(w), Tail(t))
    ELSE IsSubsequence(w, Tail(t))

\* the words the plan scenario expects in the output, in order: the sub-command,
\* a -var-file flag per configured file, a -var flag per configured override
PlanWords(c) ==
    <<"plan">>
    \o [i \in 1..Len(c.tfvars_files) |-> "-var-file=" \o c.tfvars_files[i]]
    \o [i \in 1..Len(c.var_overrides) |->
           "-var=" \o c.var_overrides[i][1] \o "=" \o c.var_overrides[i][2]]

WorkspaceSkippedOrSucceeded ==
    \/ workspace_result = NoResult /\ CountWorkspace(executed) = 0
    \/ workspace_result # NoResult /\ workspace_result.return_code = 0

\* C4: when workspace selection was skipped or returned 0 and run() returns, its
\* result is the result of the one vector built for the configured operation: the
\* last vector built and executed, whose sub-command is the configured operation,
\* with the exit code and streams that execution produced (in Real mode the
\* child's, whatever the exit code).  In Simulated mode with workspace "default"
\* and operation plan the exit code is 0 and the output holds "plan", then the
\* -var-file flags in configured order, then the -var flags.
C4_MainResultIsFinal ==
    (RunReturned /\ WorkspaceSkippedOrSucceeded) =>
        /\ CountMain(built) = 1
        /\ result.command = built[Len(built)]
        /\ result.command = executed[Len(executed)]
        /\ result.command[1] = runner.terraform_path
        /\ result.command[2] = runner.config.command
        /\ ~runner.dry_run => result = returning
        /\ (runner.dry_run /\ runner.config.workspace = "default"
              /\ runner.config.command = "plan") =>
              /\ result.return_code = 0
              /\ IsSubsequence(PlanWords(runner.config), result.stdout)

\* the end-to-end scenario: plan, workspace "default", two files, one override
C4_Witness ==
    /\ RunReturned
    /\ pc = "done"
    /\ runner.dry_run
    /\ runner.config.workspace = "default"
    /\ runner.config.command = "plan"
    /\ runner.config.tfvars_files = <<"dev.tfvars", "common.tfvars">>
    /\ runner.config.var_overrides = << <<"env", "dev">> >>
    /\ result.return_code = 0

\* a Real run whose main command failed after a successful workspace selection
C4_RealWitness ==
    /\ RunReturned
    /\ ~runner.dry_run
    /\ workspace_result # NoResult
    /\ workspace_result.return_code = 0
    /\ result.return_code # 0

\* main() has returned for a configuration that passed validate()
MainOverValid ==
    /\ entry = "main"
    /\ pc = "done"
    /\ config # NoConfig
    /\ validate(config) = << >>

BadEnvironment ==
    /\ entry = "main"
    /\ \/ environ.tf_directory = ""
       \/ environ.workspace = "bad ws!"
       \/ environ.command = "invalid_command"

\* C6: when configuration loading or validation fails, main() returns 1 and no
\* Terraform command is built or executed: the run stops at the load step.
C6_BadConfigExitsOne ==
    BadEnvironment =>
        /\ pc \in {"load", "done"}
        /\ pc = "done" => exit_code = <<1>>
        /\ runner = NoRunner
        /\ built = << >>
        /\ executed = << >>
        /\ spawned = << >>

C6_Witness ==
    /\ BadEnvironment
    /\ pc = "done"
    /\ exit_code = <<1>>
    /\ environ.workspace = "bad ws!"
    /\ environ.command # "invalid_command"
    /\ annotations # << >>

C6_ParseWitness ==
    /\ BadEnvironment
    /\ pc = "done"
    /\ exit_code = <<1>>
    /\ environ.command = "invalid_command"
    /\ config = NoConfig

\* C7: whenever the final result of run() has a non-zero exit code, main()
\* returns exactly that exit code, and nothing is executed again.
C7_NonZeroExitPropagates ==
    (entry = "main" /\ pc = "done" /\ result # NoResult /\ result.return_code # 0) =>
        /\ exit_code = <<result.return_code>>
        /\ executed = RunTrace(runner, result)
        /\ finished = Len(executed)

C7_Witness ==
    /\ entry = "main"
    /\ pc = "done"
    /\ result # NoResult
    /\ result.return_code = MaxExitCode
    /\ exit_code = <<MaxExitCode>>
    /\ result.stderr # << >>

\* the tool cannot be located: no path was given and shutil.which finds none
ToolNotLocated == which = None /\ (entry = "main" \/ arg_path = None)

\* the entry point ended in failure: an exception, or a non-zero exit code
EndedInFailure ==
    \/ raised # NoException
    \/ exit_code # << >> /\ exit_code # <<0>>

SimulatedRunAsked ==
    \/ entry = "main" /\ config # NoConfig /\ validate(config) = << >>
    \/ entry = "run" /\ arg_dry_run /\ config.command \in TerraformCommand

\* C9 as stated: in Simulated mode the runner is constructed and run() completes
\* with a result whether or not the tool can be located.
C9_SimulatedNeedsNoTool ==
    (SimulatedRunAsked /\ pc = "done") =>
        /\ runner # NoRunner
        /\ result # NoResult
        /\ raised = NoException

\* the chunks of text from position k on are the arguments of argv, single spaces
\* between them
JoinedAt(text, k, argv) ==
    /\ k >= 1
    /\ Len(text) >= k - 1 + (IF argv = << >> THEN 0 ELSE 2 * Len(argv) - 1)
    /\ \A i \in 1..Len(argv) : text[k + 2 * (i - 1)] = argv[i]
    /\ \A i \in 1..(Len(argv) - 1) : text[k + 2 * i - 1] = " "

\* res is what a Simulated run_command must return for argv
SimulatedResult(res, argv) ==
    /\ res.return_code = 0
    /\ res.stderr = << >>
    /\ res.command = argv
    /\ \E k \in 1..(Len(res.stdout) + 1) : JoinedAt(res.stdout, k, argv)

\* C10: in Simulated mode every run_command call returns exit code 0, an output
\* holding the space-joined vector, empty error output and the vector it was
\* given; no process is spawned and the working directory is never changed.
C10_SimulatedRunCommand ==
    (runner # NoRunner /\ runner.dry_run) =>
        /\ spawned = << >>
        /\ chdirs = 0
        /\ cwd = StartDir
        /\ finished = Len(executed) \/ pc = "rc_enter"
        /\ workspace_result # NoResult => SimulatedResult(workspace_result, executed[1])
        /\ result # NoResult => SimulatedResult(result, executed[Len(executed)])

C10_Witness ==
    /\ entry = "run_command"
    /\ pc = "done"
    /\ runner # NoRunner
    /\ runner.dry_run
    /\ executed = << <<TerraformPath, "apply", "-var=a=b c">> >>
    /\ result # NoResult
    /\ result.stdout =
          <<"[DRY RUN] Would execute: ", TerraformPath, " ", "apply", " ", "-var=a=b c">>

--------------------------------------------------------------------------
\* a Real-mode runner exists
RealMode == runner # NoRunner /\ ~runner.dry_run

\* no call of run_command is in progress
NoCallInProgress == finished = Len(executed)

\* C11: after every Real-mode run_command call, whether it returned, could not enter
\* the configured directory or raised while spawning, the process's working directory
\* is what it was immediately before the call.
C11_WorkingDirectoryRestored ==
    (RealMode /\ NoCallInProgress) =>
        /\ cwd = StartDir
        /\ finished > 0 => cwd = original_dir

\* a call that entered another directory and then failed to start the program
C11_Witness ==
    /\ RealMode
    /\ pc = "done"
    /\ finished = 1
    /\ raised = "OSError"
    /\ ChdirTarget(runner.config.tf_directory) # StartDir
    /\ cwd = StartDir

\* a call that could not enter the configured directory
C11_ChdirFailedWitness ==
    /\ RealMode
    /\ pc = "done"
    /\ finished = 1
    /\ raised = "FileNotFoundError"
    /\ cwd = StartDir

\* two calls that entered another directory and returned
C11_ReturnedWitness ==
    /\ RealMode
    /\ pc = "done"
    /\ finished = 2
    /\ raised = NoException
    /\ ChdirTarget(runner.config.tf_directory) = StartDir \o "/terraform"
    /\ cwd = StartDir

--------------------------------------------------------------------------
\* the child process of the call that finished last ran and exited
LastChildExited == finished > 0 /\ Len(spawned) = finished

\* C12: in Real mode a child process that exits, with a non-zero code as with zero,
\* raises nothing: run_command returns a CommandResult whose return_code, stdout and
\* stderr are the child's and whose command is the argument vector it was given.
C12_ChildExitIsAResult ==
    (RealMode /\ NoCallInProgress /\ LastChildExited) =>
        LET proc == spawned[finished]
        IN  /\ pending = NoException
            /\ raised \in {NoException, "ValueError"}
            /\ returning.return_code = proc.returncode
            /\ returning.stdout = proc.stdout
            /\ returning.stderr = proc.stderr
            /\ returning.command = executed[finished]
            /\ proc.args = executed[finished]
            /\ returning \in {workspace_result, result}

\* a child wrote to its error stream and exited with the highest code
C12_Witness ==
    /\ RealMode
    /\ pc = "done"
    /\ LastChildExited
    /\ spawned[finished].returncode = MaxExitCode
    /\ spawned[finished].stderr # << >>
    /\ result.return_code = MaxExitCode
    /\ result.stderr = spawned[finished].stderr
    /\ raised = NoException

--------------------------------------------------------------------------
\* the exceptions that leave run_command itself
CallErrors == {"FileNotFoundError", "OSError", "IndexError", "CalledProcessError"}

\* the number of finished run_command calls that returned a result
ReturnedCalls == IF raised \in CallErrors THEN finished - 1 ELSE finished

\* C13 as stated: every Real-mode call of run_command spawns exactly one child
\* process, and a Simulated call spawns none and changes no directory.
C13_Original ==
    (runner # NoRunner /\ NoCallInProgress) =>
        IF runner.dry_run
        THEN spawned = << >> /\ chdirs = 0 /\ cwd = StartDir
        ELSE Len(spawned) = finished

\* C13, amended: every Real-mode call of run_command spawns at most one child
\* process, and exactly one whenever it returns a result; a call that could not
\* enter the configured directory spawns none.  A Simulated call spawns none and
\* changes no directory.
C13_OneChildPerReturnedCall ==
    /\ runner = NoRunner => spawned = << >> /\ chdirs = 0
    /\ runner # NoRunner =>
          IF runner.dry_run
          THEN spawned = << >> /\ chdirs = 0 /\ cwd = StartDir
          ELSE /\ Len(spawned) <= Len(executed)
               /\ NoCallInProgress => ReturnedCalls <= Len(spawned)
               /\ NoCallInProgress => Len(spawned) <= finished
               /\ (NoCallInProgress /\ raised = "FileNotFoundError") =>
                     Len(spawned) = finished - 1

\* Real: two calls returned and two children ran
C13_Witness ==
    /\ RealMode
    /\ pc = "done"
    /\ raised = NoException
    /\ finished = 2
    /\ Len(spawned) = 2

\* Real: a call that could not enter the directory ended without a child
C13_NoChildWitness ==
    /\ RealMode
    /\ pc = "done"
    /\ raised = "FileNotFoundError"
    /\ finished = 1
    /\ spawned = << >>

\* Simulated: two calls returned, no child ran and no directory was changed
C13_SimulatedWitness ==
    /\ runner # NoRunner
    /\ runner.dry_run
    /\ pc = "done"
    /\ finished = 2
    /\ spawned = << >>
    /\ chdirs = 0

--------------------------------------------------------------------------
\* resolving a credential in this environment raises: OIDC or managed identity is
\* the method detected (a service principal is detected only when a secret is set)
ResolutionFails == detect_auth_method(ambient) \in {"oidc", "managed_identity"}

C14_Unresolved ==
    /\ entry = "main"
    /\ pc = "done"
    /\ executed # << >>
    /\ auth_calls = 0
    /\ ResolutionFails

--------------------------------------------------------------------------
\* environment e holds every variable of mapping m with m's value
CarriesAll(e, m) == \A k \in DOMAIN m : k \in DOMAIN e /\ e[k] = m[k]

\* C15: in Real mode every child process is started with the variables of the
\* projected credential (ARM_SUBSCRIPTION_ID, ARM_TENANT_ID, and the client id,
\* secret and token variables the credential sets) explicitly set in its environment.
C15_ChildEnvironmentIsProjected ==
    \A i \in 1..Len(spawned) :
        /\ credentials # NoCredentials
        /\ CarriesAll(spawned[i].env, set_terraform_env_vars(credentials))

\* a child was started with the inherited environment, a left-over secret included
C15_Inherited ==
    /\ RealMode
    /\ spawned # << >>
    /\ spawned[1].env = ambient
    /\ ambient.ARM_CLIENT_SECRET = "arm-secret"
    /\ credentials = NoCredentials

--------------------------------------------------------------------------
\* a variable is present in os.environ: set, to a value that is not empty (what
\* "if os.environ.get(name)" tests; a variable set to "" counts as not present)
Present(name) == ambient[name] # None /\ ambient[name] # ""

OidcSignal == Present("ACTIONS_ID_TOKEN_REQUEST_TOKEN")
SecretSignal == Present("AZURE_CLIENT_SECRET") \/ Present("ARM_CLIENT_SECRET")
ManagedSignal == Present("MSI_ENDPOINT") \/ Present("IDENTITY_ENDPOINT")

\* C16: detect_auth_method answers in every environment, by first match: OIDC when
\* the request token is present; otherwise service principal when either client
\* secret is present, managed-identity variables or not; otherwise managed identity
\* when either endpoint is present; otherwise CLI.
C16_DetectionPrecedence ==
    /\ (entry = "detect_auth_method" /\ pc = "call") => ENABLED DetectAuthMethod
    /\ (entry = "detect_auth_method" /\ pc = "done") => method \in AuthMethod
    /\ method # None =>
          /\ OidcSignal => method = "oidc"
          /\ (~OidcSignal /\ SecretSignal) => method = "service_principal"
          /\ (~OidcSignal /\ ~SecretSignal /\ ManagedSignal) => method = "managed_identity"
          /\ (~OidcSignal /\ ~SecretSignal /\ ~ManagedSignal) => method = "cli"

\* a client secret and both endpoints, no request token: service principal
C16_Witness ==
    /\ entry = "detect_auth_method"
    /\ pc = "done"
    /\ ~OidcSignal
    /\ Present("ARM_CLIENT_SECRET")
    /\ Present("MSI_ENDPOINT")
    /\ Present("IDENTITY_ENDPOINT")
    /\ method = "service_principal"

\* a request token and a client secret: OIDC
C16_OidcWitness ==
    /\ entry = "detect_auth_method"
    /\ pc = "done"
    /\ OidcSignal
    /\ SecretSignal
    /\ method = "oidc"

\* a request token set to the empty string is no signal
C16_EmptyTokenWitness ==
    /\ entry = "detect_auth_method"
    /\ pc = "done"
    /\ ambient.ACTIONS_ID_TOKEN_REQUEST_TOKEN = ""
    /\ ~SecretSignal
    /\ ~ManagedSignal
    /\ method = "cli"

--------------------------------------------------------------------------
\* a message contains the given word
Mentions(message, word) == \E i \in 1..Len(message) : message[i] = word

\* the credentials carry the authenticator's three identifiers
CarriesIdentifiers ==
    /\ credentials.subscription_id = authenticator.subscription_id
    /\ credentials.tenant_id = authenticator.tenant_id
    /\ credentials.client_id = authenticator.client_id

\* authenticate_service_principal() was called and has ended
ServicePrincipalCalled == entry = "authenticate_service_principal" /\ pc # "call"

C17_ErrorWitness ==
    /\ ServicePrincipalCalled
    /\ ~SecretSignal
    /\ auth_error # NoError
    /\ credentials = NoCredentials

--------------------------------------------------------------------------
\* authenticate() was called and has ended
AuthenticateCalled == entry = "authenticate" /\ pc # "call"

\* C18: whenever the method detected is OIDC or managed identity, authenticate()
\* raises a not-implemented error and returns no credentials of any method, whatever
\* lower-precedence signals (a client secret, an endpoint) the environment also holds.
C18_UnimplementedMethodsRaise ==
    (AuthenticateCalled /\ method \in {"oidc", "managed_identity"}) =>
        /\ credentials = NoCredentials
        /\ auth_error # NoError
        /\ auth_error.type = "NotImplementedError"
        /\ pc = "done"
        /\ env_vars = NoEnvVars

\* OIDC detected with a client secret and an endpoint also present
C18_Witness ==
    /\ AuthenticateCalled
    /\ method = "oidc"
    /\ OidcSignal
    /\ SecretSignal
    /\ ManagedSignal
    /\ auth_error # NoError
    /\ credentials = NoCredentials

\* managed identity detected
C18_ManagedWitness ==
    /\ AuthenticateCalled
    /\ method = "managed_identity"
    /\ ManagedSignal
    /\ auth_error # NoError
    /\ credentials = NoCredentials

--------------------------------------------------------------------------
\* authenticate_cli() was called and has ended
CliCalled == entry = "authenticate_cli" /\ pc # "call"

\* C19: authenticate_cli() succeeds in every environment: it returns credentials of
\* method CLI with the authenticator's subscription, tenant and client identifiers
\* and an empty client_secret and token.
C19_CliAlwaysSucceeds ==
    /\ (entry = "authenticate_cli" /\ pc = "call") => ENABLED AuthenticateCli
    /\ CliCalled =>
          /\ auth_error = NoError
          /\ credentials # NoCredentials
          /\ credentials.auth_method = "cli"
          /\ CarriesIdentifiers
          /\ credentials.client_secret = ""
          /\ credentials.token = ""

\* called with every signal present: CLI credentials all the same
C19_Witness ==
    /\ CliCalled
    /\ OidcSignal
    /\ Present("AZURE_CLIENT_SECRET")
    /\ Present("ARM_CLIENT_SECRET")
    /\ ManagedSignal
    /\ credentials # NoCredentials
    /\ credentials.auth_method = "cli"
    /\ credentials.client_id = "client-789"

--------------------------------------------------------------------------
\* the keys set_terraform_env_vars is to return for credentials c
ExpectedKeys(c) ==
    {"ARM_SUBSCRIPTION_ID", "ARM_TENANT_ID"}
    \cup (IF c.client_id # "" THEN {"ARM_CLIENT_ID"} ELSE {})
    \cup (IF c.client_secret # "" THEN {"ARM_CLIENT_SECRET"} ELSE {})
    \cup (IF c.token # "" THEN {"ARM_OIDC_TOKEN", "ARM_USE_OIDC"} ELSE {})

\* C20: for every credential, the mapping set_terraform_env_vars returns holds
\* ARM_SUBSCRIPTION_ID and ARM_TENANT_ID with the credential's values, ARM_CLIENT_ID
\* iff client_id is not empty, ARM_CLIENT_SECRET iff client_secret is not empty,
\* ARM_OIDC_TOKEN and ARM_USE_OIDC = "true" iff token is not empty, and no other key.
C20_ProjectionKeys ==
    env_vars # NoEnvVars =>
        /\ DOMAIN env_vars = ExpectedKeys(credentials)
        /\ env_vars["ARM_SUBSCRIPTION_ID"] = credentials.subscription_id
        /\ env_vars["ARM_TENANT_ID"] = credentials.tenant_id
        /\ credentials.client_id # "" => env_vars["ARM_CLIENT_ID"] = credentials.client_id
        /\ credentials.client_secret # "" =>
              env_vars["ARM_CLIENT_SECRET"] = credentials.client_secret
        /\ credentials.token # "" =>
              /\ env_vars["ARM_OIDC_TOKEN"] = credentials.token
              /\ env_vars["ARM_USE_OIDC"] = "true"

\* a credential with a token and a client id but no secret
C20_Witness ==
    /\ entry = "set_terraform_env_vars"
    /\ pc = "done"
    /\ credentials.token = "oidc-token"
    /\ credentials.client_id = "client-789"
    /\ credentials.client_secret = ""
    /\ DOMAIN env_vars = {"ARM_SUBSCRIPTION_ID", "ARM_TENANT_ID", "ARM_CLIENT_ID",
                          "ARM_OIDC_TOKEN", "ARM_USE_OIDC"}

\* a credential with empty optional fields: the two fixed keys alone
C20_MinimalWitness ==
    /\ entry = "set_terraform_env_vars"
    /\ pc = "done"
    /\ credentials.token = ""
    /\ credentials.client_id = ""
    /\ credentials.client_secret = ""
    /\ DOMAIN env_vars = {"ARM_SUBSCRIPTION_ID", "ARM_TENANT_ID"}

--------------------------------------------------------------------------
(* The builders' claims.  A flag is recognised by what it is: an argument is *)
(* a -var-file flag when it is "-var-file=" followed by one of the file      *)
(* names in use, and likewise for -var and -out.                             *)

FileNames == {"dev.tfvars", "common.tfvars"}

IsVarFileFlag(x) == \E f \in FileNames : x = "-var-file=" \o f
IsVarFlag(x) == \E o \in OverridePairs : x = "-var=" \o o[1] \o "=" \o o[2]
IsOutFlag(x) == \E f \in FileArguments \ {None} : x = "-out=" \o f

\* the positions of argv that hold an argument of the given kind
VarFilePositions(argv) == {i \in 1..Len(argv) : IsVarFileFlag(argv[i])}
VarPositions(argv) == {i \in 1..Len(argv) : IsVarFlag(argv[i])}
OutPositions(argv) == {i \in 1..Len(argv) : IsOutFlag(argv[i])}

\* argv carries the files of c, one flag per file in c's order, before the overrides
\* of c, one flag per entry
CarriesVariables(argv, c) ==
    /\ \A i \in VarFilePositions(argv), j \in VarPositions(argv) : i < j
    /\ Len(SelectSeq(argv, IsVarFileFlag)) = Len(c.tfvars_files)
    /\ \A i \in 1..Len(c.tfvars_files) :
          SelectSeq(argv, IsVarFileFlag)[i] = "-var-file=" \o c.tfvars_files[i]
    /\ Cardinality(VarPositions(argv)) = Len(c.var_overrides)
    /\ \A e \in 1..Len(c.var_overrides) :
          Cardinality({i \in 1..Len(argv) :
                          argv[i] = "-var=" \o c.var_overrides[e][1] \o "="
                                    \o c.var_overrides[e][2]}) = 1

\* the calls that build a plan, an apply without a plan file, or a destroy vector
BuildsPlan == entry = "build_plan_command" \/ (entry = "build_command" /\ arg = "plan")
BuildsApplyFromVariables ==
    \/ entry = "build_apply_command" /\ arg \in {None, ""}
    \/ entry = "build_command" /\ arg = "apply"
BuildsDestroy ==
    entry = "build_destroy_command" \/ (entry = "build_command" /\ arg = "destroy")

\* the out_file plan was asked for, None when it was not
RequestedOut == IF entry = "build_plan_command" /\ arg # "" THEN arg ELSE None

\* C21: in the vectors built for plan, for apply without a plan file and for
\* destroy, every -var-file flag precedes every -var flag, the -var-file flags are
\* one per file in the configuration's order, there is exactly one -var flag per
\* override entry, and plan's -out flag, when requested, comes after all of them.
C21_FilesBeforeOverrides ==
    (BuildsPlan \/ BuildsApplyFromVariables \/ BuildsDestroy) =>
        \A n \in 1..Len(built) :
            /\ CarriesVariables(built[n], config)
            /\ IF BuildsPlan /\ RequestedOut # None
               THEN /\ OutPositions(built[n]) = {Len(built[n])}
                    /\ built[n][Len(built[n])] = "-out=" \o RequestedOut
                    /\ \A i \in VarFilePositions(built[n]) \cup VarPositions(built[n]) :
                          i < Len(built[n])
               ELSE OutPositions(built[n]) = {}

\* plan built with two files, two overrides and an out file
C21_Witness ==
    /\ entry = "build_plan_command"
    /\ arg = "tfplan"
    /\ Len(config.tfvars_files) = 2
    /\ config.tfvars_files[1] # config.tfvars_files[2]
    /\ Len(config.var_overrides) = 2
    /\ built # << >>
    /\ Cardinality(VarFilePositions(built[1])) = 2
    /\ Cardinality(VarPositions(built[1])) = 2
    /\ OutPositions(built[1]) = {Len(built[1])}

\* destroy built with two files and two overrides
C21_DestroyWitness ==
    /\ BuildsDestroy
    /\ Len(config.tfvars_files) = 2
    /\ Len(config.var_overrides) = 2
    /\ built # << >>
    /\ VarFilePositions(built[1]) = {5, 6}
    /\ VarPositions(built[1]) = {7, 8}

--------------------------------------------------------------------------
\* build_apply_command was given a plan file ("if plan_file": a non-empty path)
PlanFileGiven == entry = "build_apply_command" /\ arg # None /\ arg # ""

\* C22: build_apply_command given a plan file builds a vector that contains the
\* path and no -var-file or -var flag, whatever the configuration holds; given
\* none, the vector has a -var-file flag for every configured file and a -var
\* flag for every configured override.
C22_ApplyPlanFileOrVariables ==
    entry = "build_apply_command" =>
        \A n \in 1..Len(built) :
            IF PlanFileGiven
            THEN /\ \E i \in 1..Len(built[n]) : built[n][i] = arg
                 /\ VarFilePositions(built[n]) = {}
                 /\ VarPositions(built[n]) = {}
            ELSE /\ \A f \in 1..Len(config.tfvars_files) :
                       \E i \in 1..Len(built[n]) :
                           built[n][i] = "-var-file=" \o config.tfvars_files[f]
                 /\ \A e \in 1..Len(config.var_overrides) :
                       \E i \in 1..Len(built[n]) :
                           built[n][i] = "-var=" \o config.var_overrides[e][1] \o "="
                                         \o config.var_overrides[e][2]

\* a plan file given to a runner whose configuration holds files and overrides
C22_Witness ==
    /\ PlanFileGiven
    /\ Len(config.tfvars_files) = 2
    /\ Len(config.var_overrides) = 2
    /\ built # << >>
    /\ built[1] = <<arg_path, "apply", "-input=false", "-auto-approve", "tfplan">>

\* no plan file given: the files and the overrides are in the vector
C22_VariablesWitness ==
    /\ entry = "build_apply_command"
    /\ arg = None
    /\ Len(config.tfvars_files) = 2
    /\ Len(config.var_overrides) = 2
    /\ built # << >>
    /\ Len(built[1]) = 8

--------------------------------------------------------------------------
\* build_command was asked for one of the five operations
BuildsOperation == entry = "build_command" /\ arg \in TerraformCommand

--------------------------------------------------------------------------
\* the sub-command the builder called is to produce
OperationBuilt ==
    CASE entry = "build_command"           -> arg
      [] entry = "build_init_command"      -> "init"
      [] entry = "build_validate_command"  -> "validate"
      [] entry = "build_plan_command"      -> "plan"
      [] entry = "build_apply_command"     -> "apply"
      [] entry = "build_destroy_command"   -> "destroy"
      [] entry = "build_workspace_command" -> "workspace"
      [] OTHER                             -> None

IsBackendFlag(x) == \E f \in {"", "backend.hcl"} : x = "-backend-config=" \o f
BackendPositions(argv) == {i \in 1..Len(argv) : IsBackendFlag(argv[i])}

\* C24: every built vector starts with the resolved tool path followed by the
\* sub-command; init, plan, apply and destroy continue with -input=false, apply and
\* destroy then with -auto-approve; validate is the tool path and "validate" and
\* nothing more; init carries -backend-config=<file> iff a backend file is configured.
C24_VectorHead ==
    entry \in BuildEntries =>
        \A n \in 1..Len(built) :
            LET argv == built[n]
                op == OperationBuilt
            IN  /\ Len(argv) >= 2
                /\ argv[1] = arg_path
                /\ argv[2] = op
                /\ op \in {"init", "plan", "apply", "destroy"} =>
                      Len(argv) >= 3 /\ argv[3] = "-input=false"
                /\ op \in {"apply", "destroy"} =>
                      Len(argv) >= 4 /\ argv[4] = "-auto-approve"
                /\ op = "validate" => argv = <<arg_path, "validate">>
                /\ op = "init" =>
                      IF config.backend_config_file # ""
                      THEN /\ BackendPositions(argv) = {Len(argv)}
                           /\ argv[Len(argv)] =
                                 "-backend-config=" \o config.backend_config_file
                      ELSE BackendPositions(argv) = {}
                /\ op # "init" => BackendPositions(argv) = {}

\* init built with a backend file configured
C24_Witness ==
    /\ OperationBuilt = "init"
    /\ config.backend_config_file = "backend.hcl"
    /\ built # << >>
    /\ built[1] = <<arg_path, "init", "-input=false", "-backend-config=backend.hcl">>

\* init built without a backend file
C24_NoBackendWitness ==
    /\ OperationBuilt = "init"
    /\ config.backend_config_file = ""
    /\ built # << >>
    /\ built[1] = <<arg_path, "init", "-input=false">>

--------------------------------------------------------------------------
\* C25: build_command returns a vector whose sub-command is the operation asked
\* for, for each of the five TerraformCommand values; for any other value it raises
\* an "Unsupported command" error and nothing is built or executed.
C25_DispatchOrUnsupported ==
    entry = "build_command" =>
        IF arg \in {"init", "validate", "plan", "apply", "destroy"}
        THEN /\ raised = NoException
             /\ build_error = << >>
             /\ pc = "done" => Len(built) = Builds
             /\ \A n \in 1..Len(built) : built[n][2] = arg
        ELSE /\ built = << >>
             /\ executed = << >>
             /\ spawned = << >>
             /\ pc = "done" =>
                   /\ raised = "ValueError"
                   /\ build_error # << >>
                   /\ build_error[1] = "Unsupported command: "
                   /\ build_error[2] = Str(arg)

\* a value that is no operation: the call raised and built nothing
C25_Witness ==
    /\ entry = "build_command"
    /\ arg = "bogus"
    /\ pc = "done"
    /\ raised = "ValueError"
    /\ build_error = <<"Unsupported command: ", "bogus">>
    /\ built = << >>

\* destroy asked for and built
C25_DispatchWitness ==
    /\ entry = "build_command"
    /\ arg = "destroy"
    /\ pc = "done"
    /\ built[1][2] = "destroy"

--------------------------------------------------------------------------
\* the three rules an environment can break, and how often it does
EmptyDirectory == environ.tf_directory = ""
InvalidWorkspace == environ.workspace = "bad ws!"
UnrecognisedCommand == environ.command = "invalid_command"
Violations ==
    (IF EmptyDirectory THEN 1 ELSE 0) + (IF InvalidWorkspace THEN 1 ELSE 0)
    + (IF UnrecognisedCommand THEN 1 ELSE 0)

\* github_error was called with the given text
Reported(text) == \E i \in 1..Len(annotations) : annotations[i] = text

\* C26: when the configuration breaks several rules at once (any of an empty working
\* directory, an invalid workspace name, an unrecognised operation name), main()
\* reports each violation on its own and then returns 1.
C26_EveryViolationReported ==
    (entry = "main" /\ pc = "done" /\ Violations > 0) =>
        /\ exit_code = <<1>>
        /\ EmptyDirectory => Reported("tf_directory cannot be empty")
        /\ InvalidWorkspace => Reported("Invalid workspace name: bad ws!")
        /\ UnrecognisedCommand =>
              \/ Reported(parse_command_error("invalid_command"))
              \/ Reported("Invalid command: invalid_command")
        /\ Len(annotations) = Violations

\* all three rules broken, one report made
C26_OnlyFirstReported ==
    /\ entry = "main"
    /\ pc = "done"
    /\ Violations = 3
    /\ exit_code = <<1>>
    /\ Len(annotations) = 1
    /\ annotations[1] = parse_command_error("invalid_command")

--------------------------------------------------------------------------
\* validate() has been applied to a loaded configuration: main() reports what it
\* returned, message by message
Validated == entry = "main" /\ pc # "load" /\ config # NoConfig

TokenChars == AlnumChars \cup {"-", "_"}

\* every character of the name is alphanumeric, "-" or "_"
AllTokenChars(name) == \A i \in 1..Len(Chars(name)) : Chars(name)[i] \in TokenChars

\* some character of the name is alphanumeric
SomeAlnumChar(name) == \E i \in 1..Len(Chars(name)) : Chars(name)[i] \in AlnumChars

\* validate() reported no "Invalid workspace name" error
WorkspaceAccepted == ~Reported("Invalid workspace name: " \o config.workspace)

\* C27 as stated: validate() accepts a workspace name iff it is non-empty and every
\* character is alphanumeric, "-" or "_", and reports "tf_directory cannot be empty"
\* iff the working directory is empty.
C27_Original ==
    Validated =>
        /\ WorkspaceAccepted <=> (config.workspace # "" /\ AllTokenChars(config.workspace))
        /\ Reported("tf_directory cannot be empty") <=> config.tf_directory = ""

\* C27, amended: validate() accepts a workspace name iff the name is empty, or every
\* character is alphanumeric, "-" or "_" and at least one is alphanumeric; it
\* reports "tf_directory cannot be empty" iff the working directory is empty.
C27_WorkspaceToken ==
    Validated =>
        /\ WorkspaceAccepted <=>
              \/ config.workspace = ""
              \/ AllTokenChars(config.workspace) /\ SomeAlnumChar(config.workspace)
        /\ Reported("tf_directory cannot be empty") <=> config.tf_directory = ""

\* the empty name is accepted while the empty directory is reported
C27_Witness ==
    /\ Validated
    /\ config.workspace = ""
    /\ config.tf_directory = ""
    /\ annotations = <<"tf_directory cannot be empty">>

\* a name of "-" and "_" alone is rejected
C27_PunctuationWitness ==
    /\ Validated
    /\ config.workspace = "-_"
    /\ annotations = <<"Invalid workspace name: -_">>

\* a name of letters, a digit, "-" and "_" is accepted
C27_AcceptedWitness ==
    /\ Validated
    /\ config.workspace = "dev-1_a"
    /\ annotations = << >>
    /\ pc = "done"

--------------------------------------------------------------------------
\* C28: for every environment and configuration a run of main() spawns no external
\* process and never changes the process working directory: the runner it creates
\* is always in dry-run mode.
C28_MainIsSimulated ==
    entry = "main" =>
        /\ spawned = << >>
        /\ chdirs = 0
        /\ cwd = StartDir
        /\ runner # NoRunner => runner.dry_run

\* main() has finished after its runner executed the workspace selection and the
\* main command
C28_Witness ==
    /\ entry = "main"
    /\ pc = "done"
    /\ Len(executed) = 2
    /\ exit_code = <<0>>
    /\ spawned = << >>
    /\ chdirs = 0

--------------------------------------------------------------------------
\* run() has built its main command through build_command
MainCommandBuilt == entry \in {"main", "run"} /\ phase = "main"

\* the plan files a caller of the builders can name
PlanArtifacts == FileArguments \ {None, ""}

\* C29: the main command run() builds through build_command holds no plan-artifact
\* argument and no -out flag; for apply it carries the configuration's -var-file
\* and -var flags, and for plan it requests no plan file.
C29_MainCommandHasNoPlanFile ==
    MainCommandBuilt =>
        /\ OutPositions(cmd) = {}
        /\ \A i \in 1..Len(cmd) : cmd[i] \notin PlanArtifacts
        /\ runner.config.command = "apply" => CarriesVariables(cmd, runner.config)

\* run() built the apply command of a configuration with files and overrides
C29_Witness ==
    /\ MainCommandBuilt
    /\ runner.config.command = "apply"
    /\ runner.config.tfvars_files # << >>
    /\ runner.config.var_overrides # << >>
    /\ VarFilePositions(cmd) # {}
    /\ VarPositions(cmd) # {}

\* run() built the plan command of a configuration with files and overrides
C29_PlanWitness ==
    /\ MainCommandBuilt
    /\ runner.config.command = "plan"
    /\ VarFilePositions(cmd) # {}
    /\ VarPositions(cmd) # {}
    /\ OutPositions(cmd) = {}

====
